---------------------------- MODULE Spec2Model ----------------------------
(***************************************************************************)
(* Model of the reconciliation engine of excel-comparator:                 *)
(* ExcelComparator.compare with its helpers normalizeReference and         *)
(* versionsMatch, in its two versions: the key-column/value-column         *)
(* comparator (key A / value Q against key C / value H) and the comparator *)
(* of one column per file that the command line uses; and of the command   *)
(* line itself: ArgumentParser.parse and the main function of index.ts     *)
(* (parse, validate, load, extract, compare, print, with its catch block). *)
(*                                                                         *)
(* JavaScript strings are sequences of one-character strings, so that      *)
(* String(), trim() and toLowerCase() are computed and not assumed.        *)
(* A cell value is a record [t, s, n]: t is the JavaScript kind, s the     *)
(* characters of a string, n the number, the truth value (1/0) of a        *)
(* boolean or the day of a Date.                                           *)
(***************************************************************************)
EXTENDS Integers, Sequences, FiniteSets, TLC

VARIABLES
    pc,          \* "ready": arguments built, compare not yet called; "done": compare returned
    variant,     \* which ExcelComparator the instance is: "kmsDml" (columns A/Q against
                 \* C/H) or "files" (one column per file)
    args,        \* the arguments of the call: [kmsDmlData, docData], or [file1Data,
                 \* file2Data, file1Column, file2Column, file1Name, file2Name]
    result,      \* the ComparisonResult returned by the last call (NoResult before)
    matchedRefs, \* the Set matchedDocRefs / matchedFile2Refs local to the last call, as
                 \* it was on return
    history,     \* completed calls of this instance, oldest first: [args, result]
    fnOp,        \* helper applied in the helper specification ("none" before)
    fnA,         \* first argument of the helper
    fnB,         \* second argument of the helper (versionsMatch only)
    fnOut,       \* value returned by the helper
    argv,        \* process.argv.slice(2): the command-line tokens
    disk,        \* the file system: what each path holds (see DiskStates)
    cliPc,       \* statement of the main function of index.ts that runs next ("none"
                 \* when no command line runs, "exited" after the process ended)
    parsed,      \* const args = parser.parse()
    validated,   \* files (1, 2) whose validateFile returned
    loaded,      \* readers (1, 2) whose load() resolved
    data1,       \* const data1 = reader1.extractColumns(...)
    data2,       \* const data2 = reader2.extractColumns(...)
    thrown,      \* message of the error raised inside the try block (NoError if none)
    console,     \* what was printed so far, oldest first
    exitCode     \* exit code of the process (0 unless process.exit(1) ran)

cliVars == <<argv, disk, cliPc, parsed, validated, loaded, data1, data2, thrown,
             console, exitCode>>

vars == <<pc, variant, args, result, matchedRefs, history, fnOp, fnA, fnB, fnOut,
          argv, disk, cliPc, parsed, validated, loaded, data1, data2, thrown,
          console, exitCode>>

-----------------------------------------------------------------------------
(* Bounds *)

MaxRowsA == 2
MaxRowsB == 2
MaxCalls == 3

-----------------------------------------------------------------------------
(* JavaScript values *)

Null == [t |-> "null", s |-> <<>>, n |-> 0]
Undefined == [t |-> "undefined", s |-> <<>>, n |-> 0]
Text(chars) == [t |-> "string", s |-> chars, n |-> 0]
Num(k) == [t |-> "number", s |-> <<>>, n |-> k]
Bool(b) == [t |-> "boolean", s |-> <<>>, n |-> IF b THEN 1 ELSE 0]
DateCell(day) == [t |-> "date", s |-> <<>>, n |-> day]

UpperLetters ==
    <<"A","B","C","D","E","F","G","H","I","J","K","L","M",
      "N","O","P","Q","R","S","T","U","V","W","X","Y","Z">>

LowerLetters ==
    <<"a","b","c","d","e","f","g","h","i","j","k","l","m",
      "n","o","p","q","r","s","t","u","v","w","x","y","z">>

DigitChars == <<"0","1","2","3","4","5","6","7","8","9">>

IsWhitespace(c) == c \in {" ", "\t", "\n"}

\* ToBoolean: the falsy values are null, undefined, "", 0 and false.
Truthy(v) ==
    CASE v.t = "null" -> FALSE
      [] v.t = "undefined" -> FALSE
      [] v.t = "string" -> Len(v.s) > 0
      [] v.t = "number" -> v.n # 0
      [] v.t = "boolean" -> v.n = 1
      [] OTHER -> TRUE

RECURSIVE NumberToString(_)
NumberToString(k) ==
    IF k < 10 THEN <<DigitChars[k + 1]>>
    ELSE NumberToString(k \div 10) \o <<DigitChars[(k % 10) + 1]>>

\* String(v). A Date prints as "Www Mmm dd yyyy ..."; the model keeps the
\* month and the day of that text.
String(v) ==
    CASE v.t = "null" -> <<"n","u","l","l">>
      [] v.t = "undefined" -> <<"u","n","d","e","f","i","n","e","d">>
      [] v.t = "string" -> v.s
      [] v.t = "number" -> NumberToString(v.n)
      [] v.t = "boolean" -> IF v.n = 1 THEN <<"t","r","u","e">> ELSE <<"f","a","l","s","e">>
      [] OTHER -> <<"N","o","v"," ">> \o NumberToString(v.n)

RECURSIVE TrimStart(_)
TrimStart(str) ==
    IF str = <<>> THEN <<>>
    ELSE IF IsWhitespace(Head(str)) THEN TrimStart(Tail(str))
    ELSE str

RECURSIVE TrimEnd(_)
TrimEnd(str) ==
    IF str = <<>> THEN <<>>
    ELSE IF IsWhitespace(str[Len(str)]) THEN TrimEnd(SubSeq(str, 1, Len(str) - 1))
    ELSE str

trim(str) == TrimEnd(TrimStart(str))

toLowerCaseChar(c) ==
    IF \E i \in 1..26 : UpperLetters[i] = c
    THEN LowerLetters[CHOOSE i \in 1..26 : UpperLetters[i] = c]
    ELSE c

toLowerCase(str) == [i \in 1..Len(str) |-> toLowerCaseChar(str[i])]

\* a || b
OrElse(a, b) == IF Truthy(a) THEN a ELSE b

-----------------------------------------------------------------------------
(* ExcelComparator helpers *)

toUpperCaseChar(c) ==
    IF \E i \in 1..26 : LowerLetters[i] = c
    THEN UpperLetters[CHOOSE i \in 1..26 : LowerLetters[i] = c]
    ELSE c

\* normalizeReference as its comment words it ("trim, uppercase"): the key
\* is upper-cased as well
normalizeReferenceUpper(ref) ==
    IF ~Truthy(ref) THEN Null
    ELSE LET refStr == trim(String(ref))
         IN  IF Len(refStr) > 0
             THEN Text([i \in 1..Len(refStr) |-> toUpperCaseChar(refStr[i])])
             ELSE Null

\* normalizeReference(ref): a non-empty string, or null.
normalizeReference(ref) ==
    IF ~Truthy(ref) THEN Null
    ELSE LET refStr == trim(String(ref))
         IN  IF Len(refStr) > 0 THEN Text(refStr) ELSE Null

\* versionsMatch without trim(): surrounding whitespace counts
versionsMatchNoTrim(version1, version2) ==
    LET v1 == String(OrElse(version1, Text(<<>>)))
        v2 == String(OrElse(version2, Text(<<>>)))
    IN  toLowerCase(v1) = toLowerCase(v2)

\* versionsMatch(version1, version2)
versionsMatch(version1, version2) ==
    LET v1 == trim(String(OrElse(version1, Text(<<>>))))
        v2 == trim(String(OrElse(version2, Text(<<>>))))
    IN  toLowerCase(v1) = toLowerCase(v2)

-----------------------------------------------------------------------------
(* ExcelComparator.compare *)

startRow == 2

\* the Set kept from the previous call, as a field of the instance would be
StaleSet == matchedRefs

\* new Map() / new Set() / [] as compare creates them on entry
NewMap == <<>>
NewSet == {}
NewArray == <<>>

MapHas(map, key) == key \in DOMAIN map

MapSet(map, key, val) ==
    [k \in (DOMAIN map) \cup {key} |-> IF k = key THEN val ELSE map[k]]

\* Map.get: the stored record, or undefined
MapGet(map, key) == IF MapHas(map, key) THEN map[key] ELSE Undefined

\* docMapStep keeping the first row of a key instead of the last
docMapStepFirstWins(docMap, row) ==
    LET reference == normalizeReference(row.C)
    IN  IF Truthy(reference) /\ ~MapHas(docMap, reference.s)
        THEN MapSet(docMap, reference.s,
                    [t |-> "object", version |-> row.H, row |-> row._rowNumber])
        ELSE docMap

\* callback of docData.forEach that populates docMap
docMapStep(docMap, row) ==
    LET reference == normalizeReference(row.C)
    IN  IF Truthy(reference)
        THEN MapSet(docMap, reference.s,
                    [t |-> "object", version |-> row.H, row |-> row._rowNumber])
        ELSE docMap

RECURSIVE buildDocMap(_, _, _)
buildDocMap(docMap, rows, i) ==
    IF i > Len(rows) THEN docMap
    ELSE buildDocMap(docMapStep(docMap, rows[i]), rows, i + 1)

\* kmsDmlStep without the early return on a row that has no key
kmsDmlStepNoSkip(acc, kmsRow, docMap) ==
    LET reference == normalizeReference(kmsRow.A)
        docRecord == MapGet(docMap, reference.s)
        pair == [reference |-> reference.s,
                 kmsDmlVersion |-> kmsRow.Q,
                 documentationVersion |-> docRecord.version,
                 kmsDmlRow |-> kmsRow._rowNumber,
                 documentationRow |-> docRecord.row]
    IN  IF Truthy(docRecord)
        THEN IF versionsMatch(kmsRow.Q, docRecord.version)
             THEN [acc EXCEPT !.matchedDocRefs = @ \cup {reference.s},
                              !.matches = Append(@, pair)]
             ELSE [acc EXCEPT !.matchedDocRefs = @ \cup {reference.s},
                              !.mismatches = Append(@, pair)]
        ELSE [acc EXCEPT !.onlyInKmsDml =
                  Append(@, [reference |-> reference.s,
                             version |-> kmsRow.Q,
                             row |-> kmsRow._rowNumber])]

\* kmsDmlStep where a row with a different version also falls through to
\* the branch of the rows that have no counterpart
kmsDmlStepFallThrough(acc, kmsRow, docMap) ==
    LET reference == normalizeReference(kmsRow.A)
        docRecord == MapGet(docMap, reference.s)
        pair == [reference |-> reference.s,
                 kmsDmlVersion |-> kmsRow.Q,
                 documentationVersion |-> docRecord.version,
                 kmsDmlRow |-> kmsRow._rowNumber,
                 documentationRow |-> docRecord.row]
        only == [reference |-> reference.s,
                 version |-> kmsRow.Q,
                 row |-> kmsRow._rowNumber]
    IN  IF ~Truthy(reference) THEN acc
        ELSE IF Truthy(docRecord)
        THEN IF versionsMatch(kmsRow.Q, docRecord.version)
             THEN [acc EXCEPT !.matchedDocRefs = @ \cup {reference.s},
                              !.matches = Append(@, pair)]
             ELSE [acc EXCEPT !.matchedDocRefs = @ \cup {reference.s},
                              !.mismatches = Append(@, pair),
                              !.onlyInKmsDml = Append(@, only)]
        ELSE [acc EXCEPT !.onlyInKmsDml = Append(@, only)]

\* kmsDmlStep with unshift in place of push: the newest entry comes first
kmsDmlStepUnshift(acc, kmsRow, docMap) ==
    LET reference == normalizeReference(kmsRow.A)
        kmsDmlVersion == kmsRow.Q
        kmsDmlRowNumber == kmsRow._rowNumber
        docRecord == MapGet(docMap, reference.s)
        pair == [reference |-> reference.s,
                 kmsDmlVersion |-> kmsDmlVersion,
                 documentationVersion |-> docRecord.version,
                 kmsDmlRow |-> kmsDmlRowNumber,
                 documentationRow |-> docRecord.row]
    IN  IF ~Truthy(reference) THEN acc
        ELSE IF Truthy(docRecord)
        THEN IF versionsMatch(kmsDmlVersion, docRecord.version)
             THEN [acc EXCEPT !.matchedDocRefs = @ \cup {reference.s},
                              !.matches = <<pair>> \o @]
             ELSE [acc EXCEPT !.matchedDocRefs = @ \cup {reference.s},
                              !.mismatches = <<pair>> \o @]
        ELSE [acc EXCEPT !.onlyInKmsDml =
                  <<[reference |-> reference.s,
                     version |-> kmsDmlVersion,
                     row |-> kmsDmlRowNumber]>> \o @]

\* callback of kmsDmlData.forEach; acc holds matches, mismatches,
\* onlyInKmsDml and matchedDocRefs
kmsDmlStep(acc, kmsRow, docMap) ==
    LET reference == normalizeReference(kmsRow.A)
        kmsDmlVersion == kmsRow.Q
        kmsDmlRowNumber == kmsRow._rowNumber
        docRecord == MapGet(docMap, reference.s)
        pair == [reference |-> reference.s,
                 kmsDmlVersion |-> kmsDmlVersion,
                 documentationVersion |-> docRecord.version,
                 kmsDmlRow |-> kmsDmlRowNumber,
                 documentationRow |-> docRecord.row]
    IN  IF ~Truthy(reference) THEN acc
        ELSE IF Truthy(docRecord)
        THEN IF versionsMatch(kmsDmlVersion, docRecord.version)
             THEN [acc EXCEPT !.matchedDocRefs = @ \cup {reference.s},
                              !.matches = Append(@, pair)]
             ELSE [acc EXCEPT !.matchedDocRefs = @ \cup {reference.s},
                              !.mismatches = Append(@, pair)]
        ELSE [acc EXCEPT !.onlyInKmsDml =
                  Append(@, [reference |-> reference.s,
                             version |-> kmsDmlVersion,
                             row |-> kmsDmlRowNumber])]

RECURSIVE scanKmsDml(_, _, _, _)
scanKmsDml(acc, rows, i, docMap) ==
    IF i > Len(rows) THEN acc
    ELSE scanKmsDml(kmsDmlStep(acc, rows[i], docMap), rows, i + 1, docMap)

\* onlyInDocumentationStep without the test on matchedDocRefs
onlyInDocumentationStepAll(onlyInDocumentation, docRow, refs) ==
    LET reference == normalizeReference(docRow.C)
    IN  IF ~Truthy(reference) THEN onlyInDocumentation
        ELSE Append(onlyInDocumentation,
                    [reference |-> reference.s,
                     version |-> docRow.H,
                     row |-> docRow._rowNumber])

\* onlyInDocumentationStep reporting a key once, as a walk over docMap would
onlyInDocumentationStepOncePerKey(onlyInDocumentation, docRow, refs) ==
    LET reference == normalizeReference(docRow.C)
    IN  IF ~Truthy(reference) THEN onlyInDocumentation
        ELSE IF reference.s \notin refs
                /\ \A e \in 1..Len(onlyInDocumentation) :
                       onlyInDocumentation[e].reference # reference.s
        THEN Append(onlyInDocumentation,
                    [reference |-> reference.s,
                     version |-> docRow.H,
                     row |-> docRow._rowNumber])
        ELSE onlyInDocumentation

\* callback of docData.forEach that collects onlyInDocumentation
onlyInDocumentationStep(onlyInDocumentation, docRow, refs) ==
    LET reference == normalizeReference(docRow.C)
    IN  IF ~Truthy(reference) THEN onlyInDocumentation
        ELSE IF reference.s \notin refs
        THEN Append(onlyInDocumentation,
                    [reference |-> reference.s,
                     version |-> docRow.H,
                     row |-> docRow._rowNumber])
        ELSE onlyInDocumentation

RECURSIVE scanDoc(_, _, _, _)
scanDoc(onlyInDocumentation, rows, i, refs) ==
    IF i > Len(rows) THEN onlyInDocumentation
    ELSE scanDoc(onlyInDocumentationStep(onlyInDocumentation, rows[i], refs),
                 rows, i + 1, refs)

\* summary whose totals count the rows that reached a bucket
ComparisonSummaryBucketTotals(kms, doc, matches, mismatches, onlyInKmsDml, onlyInDocumentation) ==
    [totalKmsDml |-> Len(matches) + Len(mismatches) + Len(onlyInKmsDml),
     totalDocumentation |-> Len(matches) + Len(mismatches) + Len(onlyInDocumentation),
     matches |-> Len(matches),
     mismatches |-> Len(mismatches),
     onlyInKmsDml |-> Len(onlyInKmsDml),
     onlyInDocumentation |-> Len(onlyInDocumentation)]

\* the ComparisonSummary built at the end of compare
ComparisonSummary(kms, doc, matches, mismatches, onlyInKmsDml, onlyInDocumentation) ==
    [totalKmsDml |-> Len(kms),
     totalDocumentation |-> Len(doc),
     matches |-> Len(matches),
     mismatches |-> Len(mismatches),
     onlyInKmsDml |-> Len(onlyInKmsDml),
     onlyInDocumentation |-> Len(onlyInDocumentation)]

\* compare(kmsDmlData, docData): the returned ComparisonResult, and the
\* local Set as it is on return
compare(kms, doc) ==
    LET docMap == buildDocMap(NewMap, doc, 1)
        acc == scanKmsDml([matches |-> NewArray,
                           mismatches |-> NewArray,
                           onlyInKmsDml |-> NewArray,
                           matchedDocRefs |-> NewSet],
                          kms, 1, docMap)
        onlyInDocumentation == scanDoc(NewArray, doc, 1, acc.matchedDocRefs)
    IN  [result |-> [matches |-> acc.matches,
                     mismatches |-> acc.mismatches,
                     onlyInKmsDml |-> acc.onlyInKmsDml,
                     onlyInDocumentation |-> onlyInDocumentation,
                     summary |-> ComparisonSummary(kms, doc, acc.matches,
                                     acc.mismatches, acc.onlyInKmsDml,
                                     onlyInDocumentation)],
         matchedDocRefs |-> acc.matchedDocRefs]

-----------------------------------------------------------------------------
(* ExcelComparator.compare, one column per file *)

\* callback of file2Data.forEach that populates file2Map
file2MapStep(file2Map, row, file2Column) ==
    LET reference == normalizeReference(row[file2Column])
    IN  IF Truthy(reference)
        THEN MapSet(file2Map, reference.s,
                    [t |-> "object", version |-> row[file2Column],
                     row |-> row["_rowNumber"]])
        ELSE file2Map

RECURSIVE buildFile2Map(_, _, _, _)
buildFile2Map(file2Map, rows, i, file2Column) ==
    IF i > Len(rows) THEN file2Map
    ELSE buildFile2Map(file2MapStep(file2Map, rows[i], file2Column), rows, i + 1,
                       file2Column)

\* callback of file1Data.forEach; acc holds matches, mismatches, onlyInFile1
\* and matchedFile2Refs
file1Step(acc, file1Row, file1Column, file2Map) ==
    LET reference == normalizeReference(file1Row[file1Column])
        file1Version == file1Row[file1Column]
        file1RowNumber == file1Row["_rowNumber"]
        file2Record == MapGet(file2Map, reference.s)
        pair == [reference |-> reference.s,
                 file1Version |-> file1Version,
                 file2Version |-> file2Record.version,
                 file1Row |-> file1RowNumber,
                 file2Row |-> file2Record.row]
    IN  IF ~Truthy(reference) THEN acc
        ELSE IF Truthy(file2Record)
        THEN IF versionsMatch(file1Version, file2Record.version)
             THEN [acc EXCEPT !.matchedFile2Refs = @ \cup {reference.s},
                              !.matches = Append(@, pair)]
             ELSE [acc EXCEPT !.matchedFile2Refs = @ \cup {reference.s},
                              !.mismatches = Append(@, pair)]
        ELSE [acc EXCEPT !.onlyInFile1 =
                  Append(@, [reference |-> reference.s,
                             version |-> file1Version,
                             row |-> file1RowNumber])]

RECURSIVE scanFile1(_, _, _, _, _)
scanFile1(acc, rows, i, file1Column, file2Map) ==
    IF i > Len(rows) THEN acc
    ELSE scanFile1(file1Step(acc, rows[i], file1Column, file2Map), rows, i + 1,
                   file1Column, file2Map)

\* callback of file2Data.forEach that collects onlyInFile2
onlyInFile2Step(onlyInFile2, file2Row, file2Column, refs) ==
    LET reference == normalizeReference(file2Row[file2Column])
    IN  IF ~Truthy(reference) THEN onlyInFile2
        ELSE IF reference.s \notin refs
        THEN Append(onlyInFile2,
                    [reference |-> reference.s,
                     version |-> file2Row[file2Column],
                     row |-> file2Row["_rowNumber"]])
        ELSE onlyInFile2

RECURSIVE scanFile2(_, _, _, _, _)
scanFile2(onlyInFile2, rows, i, file2Column, refs) ==
    IF i > Len(rows) THEN onlyInFile2
    ELSE scanFile2(onlyInFile2Step(onlyInFile2, rows[i], file2Column, refs),
                   rows, i + 1, file2Column, refs)

\* the ComparisonSummary built at the end of compare
FilesComparisonSummary(file1Data, file2Data, matches, mismatches, onlyInFile1, onlyInFile2) ==
    [totalFile1 |-> Len(file1Data),
     totalFile2 |-> Len(file2Data),
     matches |-> Len(matches),
     mismatches |-> Len(mismatches),
     onlyInFile1 |-> Len(onlyInFile1),
     onlyInFile2 |-> Len(onlyInFile2)]

\* compare(file1Data, file2Data, file1Column, file2Column, file1Name,
\* file2Name): the returned ComparisonResult, and the local Set as it is on
\* return
compareFiles(file1Data, file2Data, file1Column, file2Column, file1Name, file2Name) ==
    LET file2Map == buildFile2Map(NewMap, file2Data, 1, file2Column)
        acc == scanFile1([matches |-> NewArray,
                          mismatches |-> NewArray,
                          onlyInFile1 |-> NewArray,
                          matchedFile2Refs |-> NewSet],
                         file1Data, 1, file1Column, file2Map)
        onlyInFile2 == scanFile2(NewArray, file2Data, 1, file2Column,
                                 acc.matchedFile2Refs)
    IN  [result |-> [matches |-> acc.matches,
                     mismatches |-> acc.mismatches,
                     onlyInFile1 |-> acc.onlyInFile1,
                     onlyInFile2 |-> onlyInFile2,
                     summary |-> FilesComparisonSummary(file1Data, file2Data,
                                     acc.matches, acc.mismatches,
                                     acc.onlyInFile1, onlyInFile2),
                     file1Name |-> file1Name,
                     file2Name |-> file2Name],
         matchedFile2Refs |-> acc.matchedFile2Refs]

-----------------------------------------------------------------------------
(* Inputs *)

\* key cells of column A: " a" and "A" are keys, " " trims to nothing
KeyCellsA == {Text(<<" ", "a">>), Text(<<"A">>), Text(<<" ">>)}
\* value cells of column Q
ValueCellsA == {Text(<<"x">>), Text(<<"y">>)}
\* key cells of column C: "a" and "A " are keys, null is an empty cell
KeyCellsC == {Text(<<"a">>), Text(<<"A", " ">>), Null}
\* value cells of column H
ValueCellsH == {Text(<<"X", " ">>), Null}

\* extractColumns leaves out a row whose requested cells are all empty
AllEmpty(cells) == \A c \in 1..Len(cells) : cells[c].t \in {"null", "undefined"}

\* Rows as extractColumns(sheet, ['A', 'Q']) returns them: data starts at
\* startRow and the row position grows with the index.
KmsDmlInputs ==
    UNION {{[i \in 1..len |-> [A |-> f[i][1], Q |-> f[i][2],
                               _rowNumber |-> startRow + i - 1]] :
               f \in [1..len -> {c \in KeyCellsA \X ValueCellsA : ~AllEmpty(c)}]} :
           len \in 0..MaxRowsA}

\* Rows as extractColumns(sheet, ['C', 'H']) returns them, from a sheet
\* whose data starts at row 11.
DocInputs ==
    UNION {{[i \in 1..len |-> [C |-> f[i][1], H |-> f[i][2],
                               _rowNumber |-> 10 + i]] :
               f \in [1..len -> {c \in KeyCellsC \X ValueCellsH : ~AllEmpty(c)}]} :
           len \in 0..MaxRowsB}

\* cells of the column compared in file 1 and in file 2
File1Cells == {Text(<<" ", "a">>), Text(<<"A">>), Text(<<" ">>), Num(7)}
File2Cells == {Text(<<"a">>), Text(<<"A", " ">>), Text(<<"7", " ">>)}

\* a row as extractColumns(sheet, [column]) returns it
ColumnRow(column, cell, rowNumber) ==
    [c \in {column, "_rowNumber"} |-> IF c = column THEN cell ELSE rowNumber]

File1Inputs(column) ==
    UNION {{[i \in 1..len |-> ColumnRow(column, f[i], startRow + i - 1)] :
               f \in [1..len -> File1Cells]} : len \in 0..MaxRowsA}

File2Inputs(column) ==
    UNION {{[i \in 1..len |-> ColumnRow(column, f[i], 10 + i)] :
               f \in [1..len -> File2Cells]} : len \in 0..MaxRowsB}

\* arguments of a call of the key-column/value-column compare
KmsDmlArgs == [kmsDmlData : KmsDmlInputs, docData : DocInputs]

\* arguments of a call of the one-column compare, as the command line
\* builds them from "-f <file> <sheet> <column>"
FilesArgs ==
    UNION {[file1Data : File1Inputs("A"), file2Data : File2Inputs(column2),
            file1Column : {"A"}, file2Column : {column2},
            file1Name : {"File 1"}, file2Name : {"File 2"}] :
           column2 \in {"A", "C"}}

\* Arguments of the calls made one after the other on one instance
CallKmsDmlArgs ==
    [kmsDmlData :
        {<<>>,
         <<[A |-> Text(<<" ", "a">>), Q |-> Text(<<"x">>), _rowNumber |-> 2]>>,
         <<[A |-> Text(<<"A">>), Q |-> Text(<<"y">>), _rowNumber |-> 2]>>},
     docData :
        {<<>>,
         <<[C |-> Text(<<"a">>), H |-> Text(<<"X", " ">>), _rowNumber |-> 11]>>,
         <<[C |-> Text(<<"a">>), H |-> Text(<<"y">>), _rowNumber |-> 11],
           [C |-> Text(<<"A", " ">>), H |-> Null, _rowNumber |-> 12]>>}]

CallFilesArgs ==
    [file1Data : {<<>>, <<ColumnRow("A", Text(<<" ", "a">>), 2)>>},
     file2Data : {<<ColumnRow("C", Text(<<"a">>), 11)>>,
                  <<ColumnRow("C", Text(<<"A", " ">>), 11)>>},
     file1Column : {"A"}, file2Column : {"C"},
     file1Name : {"File 1"}, file2Name : {"File 2"}]

\* Cell domain of the helpers: text, number, boolean, temporal, empty
CellDomain ==
    {Null, Undefined,
     Text(<<>>), Text(<<" ">>), Text(<<"\t", " ">>),
     Text(<<"a">>), Text(<<"A">>), Text(<<" ", "a", " ">>), Text(<<"a", " ", "b">>),
     Text(<<"0">>), Text(<<" ", "0">>), Text(<<"1", "0">>),
     Text(<<"t", "r", "u", "e">>), Text(<<"F", "A", "L", "S", "E">>),
     Text(<<"n", "o", "v", " ", "7">>),
     Num(0), Num(1), Num(10),
     Bool(TRUE), Bool(FALSE),
     DateCell(7)}

\* value of result before the first call returns
NoResult == Undefined

-----------------------------------------------------------------------------
(* ArgumentParser: a token of the command line is a sequence of characters *)

FlagFile == <<"-", "f">>
FlagHelp == <<"-", "-", "h", "e", "l", "p">>
FlagH == <<"-", "h">>

\* array.includes(token)
includes(array, token) == \E k \in 1..Len(array) : array[k] = token

toUpperCase(str) == [k \in 1..Len(str) |-> toUpperCaseChar(str[k])]

IsLetter(c) == \E k \in 1..26 : UpperLetters[k] = c \/ LowerLetters[k] = c

\* what a call leaves: the value it returns, or the message of the Error it throws
Return(value) == [threw |-> FALSE, message |-> "none", value |-> value]
Throw(message) == [threw |-> TRUE, message |-> message, value |-> <<>>]

\* a column test that lets three letters through
isValidColumnLetterUpToThree(col) ==
    /\ Len(col) \in 1..3
    /\ \A k \in 1..Len(col) : IsLetter(col[k])

\* /^[A-Za-z]{1,2}$/.test(col)
isValidColumnLetter(col) ==
    /\ Len(col) \in 1..2
    /\ \A k \in 1..Len(col) : IsLetter(col[k])

\* a loop body that takes a token that is not -f as the path of a file, with
\* the sheet and the column of the older comparator
parseFileArgumentsStepPositional(a, i, files) ==
    IF a[i + 1] = FlagFile
    THEN IF i + 3 >= Len(a)
         THEN [threw |-> TRUE, message |-> "Invalid -f argument", files |-> files, i |-> i]
         ELSE LET filePath == a[i + 2]
                  sheetName == a[i + 3]
                  columnLetter == a[i + 4]
              IN  IF ~Truthy(Text(filePath)) \/ ~Truthy(Text(sheetName))
                     \/ ~Truthy(Text(columnLetter))
                  THEN [threw |-> TRUE, message |-> "Missing arguments for -f flag",
                        files |-> files, i |-> i]
                  ELSE IF ~isValidColumnLetter(columnLetter)
                  THEN [threw |-> TRUE, message |-> "Invalid column letter",
                        files |-> files, i |-> i]
                  ELSE [threw |-> FALSE, message |-> "none",
                        files |-> Append(files, [filePath |-> filePath,
                                                 sheetName |-> sheetName,
                                                 columnLetter |-> toUpperCase(columnLetter)]),
                        i |-> i + 4]
    ELSE [threw |-> FALSE, message |-> "none",
          files |-> Append(files, [filePath |-> a[i + 1], sheetName |-> <<"S">>,
                                   columnLetter |-> IF files = <<>> THEN <<"A">> ELSE <<"C">>]),
          i |-> i + 1]

\* One turn of the while loop of parseFileArguments, at index i (from 0) of
\* this.args: the Error it throws, or files and i as it leaves them.
parseFileArgumentsStep(a, i, files) ==
    IF a[i + 1] = FlagFile
    THEN IF i + 3 >= Len(a)
         THEN [threw |-> TRUE, message |-> "Invalid -f argument", files |-> files, i |-> i]
         ELSE LET filePath == a[i + 2]
                  sheetName == a[i + 3]
                  columnLetter == a[i + 4]
              IN  IF ~Truthy(Text(filePath)) \/ ~Truthy(Text(sheetName))
                     \/ ~Truthy(Text(columnLetter))
                  THEN [threw |-> TRUE, message |-> "Missing arguments for -f flag",
                        files |-> files, i |-> i]
                  ELSE IF ~isValidColumnLetter(columnLetter)
                  THEN [threw |-> TRUE, message |-> "Invalid column letter",
                        files |-> files, i |-> i]
                  ELSE [threw |-> FALSE, message |-> "none",
                        files |-> Append(files, [filePath |-> filePath,
                                                 sheetName |-> sheetName,
                                                 columnLetter |-> toUpperCase(columnLetter)]),
                        i |-> i + 4]
    ELSE [threw |-> TRUE, message |-> "Unknown argument", files |-> files, i |-> i]

RECURSIVE parseFileArgumentsWhile(_, _, _)
parseFileArgumentsWhile(a, i, files) ==
    IF ~(i < Len(a)) THEN Return(files)
    ELSE LET step == parseFileArgumentsStep(a, i, files)
         IN  IF step.threw THEN Throw(step.message)
             ELSE parseFileArgumentsWhile(a, step.i, step.files)

parseFileArguments(a) == parseFileArgumentsWhile(a, 0, <<>>)

\* ArgumentParser.parse() on this.args = a
parse(a) ==
    IF Len(a) = 0 \/ includes(a, FlagHelp) \/ includes(a, FlagH)
    THEN Return([files |-> <<>>, showHelp |-> TRUE])
    ELSE LET files == parseFileArguments(a)
         IN  IF files.threw THEN files
             ELSE IF Len(files.value) # 2
             THEN Throw("Exactly 2 files must be specified with -f flag")
             ELSE Return([files |-> files.value, showHelp |-> FALSE])

-----------------------------------------------------------------------------
(* The file system and the functions of index.ts *)

RECURSIVE JoinChars(_)
\* the characters as one string
JoinChars(chars) == IF chars = <<>> THEN "" ELSE Head(chars) \o JoinChars(Tail(chars))

\* str.lastIndexOf(c), from 1; 0 when c is not in str
LastIndexOf(str, c) ==
    IF \E k \in 1..Len(str) : str[k] = c
    THEN CHOOSE k \in 1..Len(str) : str[k] = c /\ \A m \in (k + 1)..Len(str) : str[m] # c
    ELSE 0

\* path.basename(p)
basename(p) == SubSeq(p, LastIndexOf(p, "/") + 1, Len(p))

\* path.extname(p): from the last dot of the base name, "" when there is no
\* dot or the base name starts with its only dot
extname(p) ==
    LET base == basename(p)
        dot == LastIndexOf(base, ".")
    IN  IF dot <= 1 THEN <<>> ELSE SubSeq(base, dot, Len(base))

SupportedExtensions ==
    {<<".", "x", "l", "s", "x">>, <<".", "x", "l", "s", "m">>, <<".", "x", "l", "s">>}

\* what a path of the file system holds
Missing == [exists |-> FALSE, workbook |-> FALSE, sheets |-> {}]
Unreadable == [exists |-> TRUE, workbook |-> FALSE, sheets |-> {}]
WorkbookOf(sheets) == [exists |-> TRUE, workbook |-> TRUE, sheets |-> sheets]

\* fs.existsSync(filePath)
existsSync(d, filePath) == filePath \in DOMAIN d /\ d[filePath].exists

\* a validateFile that does not look at the extension
validateFileAnyExtension(d, filePath) ==
    IF ~existsSync(d, filePath) THEN Throw("File not found")
    ELSE Return(Undefined)

\* validateFile(filePath) on the file system d
validateFile(d, filePath) ==
    IF ~existsSync(d, filePath) THEN Throw("File not found")
    ELSE LET ext == toLowerCase(extname(filePath))
         IN  IF ext \notin SupportedExtensions THEN Throw("Unsupported file format")
             ELSE Return(Undefined)

\* reader.load(): workbook.xlsx.readFile(filePath) rejects on a file that is
\* not a workbook
load(d, filePath) ==
    IF existsSync(d, filePath) /\ d[filePath].workbook THEN Return(Undefined)
    ELSE Throw("readFile failed")

\* reader.getWorksheet(sheetName) is defined
hasWorksheet(d, filePath, sheetName) == sheetName \in d[filePath].sheets

\* `${path.basename(file.filePath)} [${file.sheetName}:${file.columnLetter}]`
DisplayName(file) ==
    JoinChars(basename(file.filePath)) \o " [" \o JoinChars(file.sheetName) \o ":"
        \o JoinChars(file.columnLetter) \o "]"

-----------------------------------------------------------------------------
(* Command lines and file systems *)

MaxChunks == 3

FileA == <<"a", ".", "x", "l", "s", "x">>
FileB == <<"d", "/", "b", ".", "X", "L", "S">>
FileC == <<"c", ".", "c", "s", "v">>
SheetS == <<"S">>
SheetOther == <<"O">>

Group(filePath, sheetName, columnLetter) == <<FlagFile, filePath, sheetName, columnLetter>>

\* Pieces of a command line: whole -f groups (with a good column, a column
\* that is not one or two letters, or an empty token), cut -f groups, a token
\* outside a group, help flags.
ArgvChunks ==
    {Group(FileA, SheetS, <<"a">>), Group(FileB, SheetS, <<"q", "Z">>),
     Group(FileA, SheetS, <<"A", "1">>), Group(FileA, SheetS, <<"a", "b", "c">>),
     Group(<<>>, SheetS, <<"A">>), Group(FileA, <<>>, <<"A">>),
     <<FlagFile>>, <<FlagFile, FileA, SheetS>>,
     <<FileA>>, <<FlagH>>, <<FlagHelp>>}

RECURSIVE Flatten(_)
Flatten(chunks) == IF chunks = <<>> THEN <<>> ELSE Head(chunks) \o Flatten(Tail(chunks))

\* command lines of the parser: up to MaxChunks pieces one after the other
ArgvInputs ==
    UNION {{Flatten(f) : f \in [1..len -> ArgvChunks]} : len \in 0..MaxChunks}

\* Command lines of a whole run: no token, help, two paths without -f, two
\* -f groups over the three paths, and lines the parser refuses.
CliArgvInputs ==
    {<<>>, <<FlagH>>, <<FileA, FileB>>, <<FileB, FileA>>,
     Group(FileA, SheetS, <<"a">>) \o <<FlagHelp>>,
     Group(FileA, SheetS, <<"a">>),
     Group(FileA, SheetS, <<"a">>) \o Group(FileB, SheetS, <<"a", "b", "c">>),
     Group(FileA, SheetS, <<"a">>) \o <<FlagFile, FileB, SheetS>>,
     Group(FileA, SheetS, <<"a">>) \o Group(FileB, SheetS, <<"c">>)
         \o Group(FileA, SheetS, <<"a">>)}
    \cup {Group(f1, SheetS, <<"a">>) \o Group(f2, SheetS, <<"c">>) :
             f1 \in {FileA, FileB, FileC}, f2 \in {FileA, FileB, FileC}}

DiskEntries == {Missing, Unreadable, WorkbookOf({SheetOther}), WorkbookOf({SheetS})}

\* file systems: FileA is a workbook or missing, the others hold anything
DiskStates ==
    {d \in [{FileA, FileB, FileC} -> DiskEntries] : d[FileA] \in {Missing, WorkbookOf({SheetS})}}

\* rows extractColumns(sheet, [column]) finds in a workbook
SheetRows(column) ==
    {<<>>,
     <<ColumnRow(column, Text(<<" ", "a">>), 2)>>,
     <<ColumnRow(column, Text(<<"a">>), 2), ColumnRow(column, Text(<<"A", " ">>), 4)>>}

\* const args before parser.parse() returned
NoParsedArgs == [files |-> <<>>, showHelp |-> FALSE]
NoError == "none"

\* no command line runs
NoCli ==
    /\ argv = <<>>
    /\ disk = [p \in {} |-> Missing]
    /\ cliPc = "none"
    /\ parsed = NoParsedArgs
    /\ validated = {}
    /\ loaded = {}
    /\ data1 = <<>>
    /\ data2 = <<>>
    /\ thrown = NoError
    /\ console = <<>>
    /\ exitCode = 0

-----------------------------------------------------------------------------
(* Specification of one call: the arguments are drawn, compare runs *)

NoHelper == fnOp = "none" /\ fnA = Null /\ fnB = Null /\ fnOut = Null

Init ==
    /\ pc = "ready"
    /\ \/ variant = "kmsDml" /\ args \in KmsDmlArgs
       \/ variant = "files" /\ args \in FilesArgs
    /\ result = NoResult
    /\ matchedRefs = {}
    /\ history = <<>>
    /\ NoHelper
    /\ NoCli

\* comparator.compare(kmsDmlData, docData)
Compare ==
    /\ pc = "ready"
    /\ variant = "kmsDml"
    /\ pc' = "done"
    /\ \E out \in {compare(args.kmsDmlData, args.docData)} :
           /\ result' = out.result
           /\ matchedRefs' = out.matchedDocRefs
           /\ history' = Append(history, [args |-> args, result |-> out.result])
    /\ UNCHANGED <<variant, args, fnOp, fnA, fnB, fnOut>>
    /\ UNCHANGED cliVars

\* comparator.compare(data1, data2, file1.columnLetter, file2.columnLetter,
\* file1DisplayName, file2DisplayName)
CompareFiles ==
    /\ pc = "ready"
    /\ variant = "files"
    /\ pc' = "done"
    /\ \E out \in {compareFiles(args.file1Data, args.file2Data, args.file1Column,
                                args.file2Column, args.file1Name, args.file2Name)} :
           /\ result' = out.result
           /\ matchedRefs' = out.matchedFile2Refs
           /\ history' = Append(history, [args |-> args, result |-> out.result])
    /\ UNCHANGED <<variant, args, fnOp, fnA, fnB, fnOut>>
    /\ UNCHANGED cliVars

Next == Compare \/ CompareFiles

Spec == Init /\ [][Next]_vars

-----------------------------------------------------------------------------
(* Specification of several calls on one ExcelComparator instance *)

InitCalls ==
    /\ pc = "ready"
    /\ \/ variant = "kmsDml" /\ args \in CallKmsDmlArgs
       \/ variant = "files" /\ args \in CallFilesArgs
    /\ result = NoResult
    /\ matchedRefs = {}
    /\ history = <<>>
    /\ NoHelper
    /\ NoCli

\* the caller builds the arguments of its next call
NextCall ==
    /\ pc = "done"
    /\ Len(history) < MaxCalls
    /\ pc' = "ready"
    /\ args' \in (IF variant = "kmsDml" THEN CallKmsDmlArgs ELSE CallFilesArgs)
    /\ UNCHANGED <<variant, result, matchedRefs, history, fnOp, fnA, fnB, fnOut>>
    /\ UNCHANGED cliVars

NextCalls == Compare \/ CompareFiles \/ NextCall

SpecCalls == InitCalls /\ [][NextCalls]_vars

-----------------------------------------------------------------------------
(* Specification of the helpers: the arguments are drawn, one helper runs *)

InitFn ==
    /\ pc = "ready"
    /\ variant = "kmsDml"
    /\ args = [kmsDmlData |-> <<>>, docData |-> <<>>]
    /\ result = NoResult
    /\ matchedRefs = {}
    /\ history = <<>>
    /\ fnOp = "none"
    /\ fnA \in CellDomain
    /\ fnB \in CellDomain
    /\ fnOut = Null
    /\ NoCli

CallNormalizeReference ==
    /\ fnOp = "none"
    /\ fnOp' = "normalizeReference"
    /\ fnOut' = normalizeReference(fnA)
    /\ UNCHANGED <<pc, variant, args, result, matchedRefs, history, fnA, fnB>>
    /\ UNCHANGED cliVars

CallVersionsMatch ==
    /\ fnOp = "none"
    /\ fnOp' = "versionsMatch"
    /\ fnOut' = versionsMatch(fnA, fnB)
    /\ UNCHANGED <<pc, variant, args, result, matchedRefs, history, fnA, fnB>>
    /\ UNCHANGED cliVars

NextFn == CallNormalizeReference \/ CallVersionsMatch

SpecFn == InitFn /\ [][NextFn]_vars

-----------------------------------------------------------------------------
(* Specification of a run of the command line: the main function of index.ts *)

compareVars == <<pc, variant, args, result, matchedRefs, history, fnOp, fnA, fnB, fnOut>>

\* arguments of compare before the run reaches its call
NoFilesArgs ==
    [file1Data |-> <<>>, file2Data |-> <<>>, file1Column |-> "", file2Column |-> "",
     file1Name |-> "", file2Name |-> ""]

CliStart ==
    /\ pc = "ready"
    /\ variant = "files"
    /\ args = NoFilesArgs
    /\ result = NoResult
    /\ matchedRefs = {}
    /\ history = <<>>
    /\ NoHelper
    /\ cliPc = "parse"
    /\ parsed = NoParsedArgs
    /\ validated = {}
    /\ loaded = {}
    /\ data1 = <<>>
    /\ data2 = <<>>
    /\ thrown = NoError
    /\ console = <<>>
    /\ exitCode = 0

InitCli ==
    /\ CliStart
    /\ argv \in CliArgvInputs
    /\ disk \in DiskStates

\* const args = parser.parse()
CliParse ==
    /\ cliPc = "parse"
    /\ \E r \in {parse(argv)} :
           IF r.threw
           THEN /\ thrown' = r.message
                /\ cliPc' = "catch"
                /\ UNCHANGED parsed
           ELSE /\ parsed' = r.value
                /\ cliPc' = IF r.value.showHelp THEN "help" ELSE "validate1"
                /\ UNCHANGED thrown
    /\ UNCHANGED <<compareVars, argv, disk, validated, loaded, data1, data2, console,
                   exitCode>>

\* if (args.showHelp) { ArgumentParser.printHelp(); process.exit(0); }
CliHelp ==
    /\ cliPc = "help"
    /\ console' = Append(console, "USAGE")
    /\ exitCode' = 0
    /\ cliPc' = "exited"
    /\ UNCHANGED <<compareVars, argv, disk, parsed, validated, loaded, data1, data2,
                   thrown>>

\* validateFile(file1.filePath)
CliValidate1 ==
    /\ cliPc = "validate1"
    /\ \E r \in {validateFile(disk, parsed.files[1].filePath)} :
           IF r.threw
           THEN /\ thrown' = r.message
                /\ cliPc' = "catch"
                /\ UNCHANGED validated
           ELSE /\ validated' = validated \cup {1}
                /\ cliPc' = "validate2"
                /\ UNCHANGED thrown
    /\ UNCHANGED <<compareVars, argv, disk, parsed, loaded, data1, data2, console,
                   exitCode>>

\* validateFile(file2.filePath); console.log('Loading Excel files...')
CliValidate2 ==
    /\ cliPc = "validate2"
    /\ \E r \in {validateFile(disk, parsed.files[2].filePath)} :
           IF r.threw
           THEN /\ thrown' = r.message
                /\ cliPc' = "catch"
                /\ UNCHANGED <<validated, console>>
           ELSE /\ validated' = validated \cup {2}
                /\ console' = Append(console, "Loading Excel files")
                /\ cliPc' = "load1"
                /\ UNCHANGED thrown
    /\ UNCHANGED <<compareVars, argv, disk, parsed, loaded, data1, data2, exitCode>>

\* await reader1.load(); console.log(`Loaded file 1: ...`)
CliLoad1 ==
    /\ cliPc = "load1"
    /\ \E r \in {load(disk, parsed.files[1].filePath)} :
           IF r.threw
           THEN /\ thrown' = r.message
                /\ cliPc' = "catch"
                /\ UNCHANGED <<loaded, console>>
           ELSE /\ loaded' = loaded \cup {1}
                /\ console' = Append(console, "Loaded file 1")
                /\ cliPc' = "load2"
                /\ UNCHANGED thrown
    /\ UNCHANGED <<compareVars, argv, disk, parsed, validated, data1, data2, exitCode>>

\* await reader2.load(); console.log(`Loaded file 2: ...`)
CliLoad2 ==
    /\ cliPc = "load2"
    /\ \E r \in {load(disk, parsed.files[2].filePath)} :
           IF r.threw
           THEN /\ thrown' = r.message
                /\ cliPc' = "catch"
                /\ UNCHANGED <<loaded, console>>
           ELSE /\ loaded' = loaded \cup {2}
                /\ console' = Append(console, "Loaded file 2")
                /\ cliPc' = "extract1"
                /\ UNCHANGED thrown
    /\ UNCHANGED <<compareVars, argv, disk, parsed, validated, data1, data2, exitCode>>

\* console.log('Extracting data...');
\* const data1 = reader1.extractColumns(file1.sheetName, [file1.columnLetter])
CliExtract1 ==
    /\ cliPc = "extract1"
    /\ IF ~hasWorksheet(disk, parsed.files[1].filePath, parsed.files[1].sheetName)
       THEN /\ thrown' = "Worksheet not found"
            /\ console' = Append(console, "Extracting data")
            /\ cliPc' = "catch"
            /\ UNCHANGED data1
       ELSE /\ data1' \in SheetRows(JoinChars(parsed.files[1].columnLetter))
            /\ console' = console \o <<"Extracting data", "Extracted rows from file 1">>
            /\ cliPc' = "extract2"
            /\ UNCHANGED thrown
    /\ UNCHANGED <<compareVars, argv, disk, parsed, validated, loaded, data2, exitCode>>

\* const data2 = reader2.extractColumns(file2.sheetName, [file2.columnLetter])
CliExtract2 ==
    /\ cliPc = "extract2"
    /\ IF ~hasWorksheet(disk, parsed.files[2].filePath, parsed.files[2].sheetName)
       THEN /\ thrown' = "Worksheet not found"
            /\ cliPc' = "catch"
            /\ UNCHANGED <<data2, console>>
       ELSE /\ data2' \in SheetRows(JoinChars(parsed.files[2].columnLetter))
            /\ console' = Append(console, "Extracted rows from file 2")
            /\ cliPc' = "compare"
            /\ UNCHANGED thrown
    /\ UNCHANGED <<compareVars, argv, disk, parsed, validated, loaded, data1, exitCode>>

\* console.log('Comparing data...'); const comparator = new ExcelComparator();
\* const result = comparator.compare(data1, data2, file1.columnLetter,
\*     file2.columnLetter, file1DisplayName, file2DisplayName)
CliCompare ==
    /\ cliPc = "compare"
    /\ pc = "ready"
    /\ \E call \in {[file1Data |-> data1, file2Data |-> data2,
                      file1Column |-> JoinChars(parsed.files[1].columnLetter),
                      file2Column |-> JoinChars(parsed.files[2].columnLetter),
                      file1Name |-> DisplayName(parsed.files[1]),
                      file2Name |-> DisplayName(parsed.files[2])]} :
           \E out \in {compareFiles(call.file1Data, call.file2Data, call.file1Column,
                                    call.file2Column, call.file1Name, call.file2Name)} :
               /\ args' = call
               /\ result' = out.result
               /\ matchedRefs' = out.matchedFile2Refs
               /\ history' = Append(history, [args |-> call, result |-> out.result])
    /\ pc' = "done"
    /\ console' = Append(console, "Comparing data")
    /\ cliPc' = "print"
    /\ UNCHANGED <<variant, fnOp, fnA, fnB, fnOut, argv, disk, parsed, validated, loaded,
                   data1, data2, thrown, exitCode>>

\* comparator.printResults(result); the main function returns and the
\* process ends with the exit code it has
CliPrintResults ==
    /\ cliPc = "print"
    /\ console' = Append(console, "COMPARISON RESULTS")
    /\ cliPc' = "exited"
    /\ UNCHANGED <<compareVars, argv, disk, parsed, validated, loaded, data1, data2,
                   thrown, exitCode>>

\* catch (error) { console.error('Error:', error.message);
\* console.log('Use -h or --help for usage information'); process.exit(1); }
CliCatch ==
    /\ cliPc = "catch"
    /\ console' = console \o <<"Error", "Use -h or --help for usage information">>
    /\ exitCode' = 1
    /\ cliPc' = "exited"
    /\ UNCHANGED <<compareVars, argv, disk, parsed, validated, loaded, data1, data2,
                   thrown>>

NextCli ==
    \/ CliParse
    \/ CliHelp
    \/ CliValidate1
    \/ CliValidate2
    \/ CliLoad1
    \/ CliLoad2
    \/ CliExtract1
    \/ CliExtract2
    \/ CliCompare
    \/ CliPrintResults
    \/ CliCatch

\* An error thrown inside the try block is caught at once: the catch block
\* is synchronous code that runs when the throw unwinds (or when the awaited
\* promise rejects), so the handler does run once it can.
SpecCli == InitCli /\ [][NextCli]_vars /\ WF_vars(CliCatch)

-----------------------------------------------------------------------------
(* Specification of ArgumentParser.parse alone: a command line is drawn *)

InitArgs ==
    /\ CliStart
    /\ argv \in ArgvInputs
    /\ disk = [p \in {} |-> Missing]

NextArgs == CliParse

SpecArgs == InitArgs /\ [][NextArgs]_vars

-----------------------------------------------------------------------------
(* Vocabulary of the properties: rowsA, rowsB, the key and the value of a   *)
(* row and the four buckets, whichever comparator ran                       *)

Returned == pc = "done"
IsKmsDml == variant = "kmsDml"

RowsOfA == IF IsKmsDml THEN args.kmsDmlData ELSE args.file1Data
RowsOfB == IF IsKmsDml THEN args.docData ELSE args.file2Data
KeyCellA(row) == IF IsKmsDml THEN row.A ELSE row[args.file1Column]
ValueCellA(row) == IF IsKmsDml THEN row.Q ELSE row[args.file1Column]
KeyCellB(row) == IF IsKmsDml THEN row.C ELSE row[args.file2Column]
ValueCellB(row) == IF IsKmsDml THEN row.H ELSE row[args.file2Column]
RowNumber(row) == row["_rowNumber"]

HasKey(cell) == Truthy(normalizeReference(cell))
KeyOf(cell) == normalizeReference(cell).s

RowsA == 1..Len(RowsOfA)
RowsB == 1..Len(RowsOfB)
KeyedRowsA == {i \in RowsA : HasKey(KeyCellA(RowsOfA[i]))}
KeyedRowsB == {j \in RowsB : HasKey(KeyCellB(RowsOfB[j]))}
KeyA(i) == KeyOf(KeyCellA(RowsOfA[i]))
KeyB(j) == KeyOf(KeyCellB(RowsOfB[j]))
KeysA == {KeyA(i) : i \in KeyedRowsA}
KeysB == {KeyB(j) : j \in KeyedRowsB}

\* a Matched or Mismatched entry as {key, valueA, valueB, rowA, rowB}
PairEntry(e) ==
    IF IsKmsDml
    THEN [key |-> e.reference, valueA |-> e.kmsDmlVersion,
          valueB |-> e.documentationVersion,
          rowA |-> e.kmsDmlRow, rowB |-> e.documentationRow]
    ELSE [key |-> e.reference, valueA |-> e.file1Version,
          valueB |-> e.file2Version,
          rowA |-> e.file1Row, rowB |-> e.file2Row]

\* an UnmatchedA or UnmatchedB entry as {key, value, row}
SingleEntry(e) == [key |-> e.reference, value |-> e.version, row |-> e.row]

Matched == [e \in 1..Len(result.matches) |-> PairEntry(result.matches[e])]
Mismatched == [e \in 1..Len(result.mismatches) |-> PairEntry(result.mismatches[e])]
UnmatchedA ==
    LET bucket == IF IsKmsDml THEN result.onlyInKmsDml ELSE result.onlyInFile1
    IN  [e \in 1..Len(bucket) |-> SingleEntry(bucket[e])]
UnmatchedB ==
    LET bucket == IF IsKmsDml THEN result.onlyInDocumentation ELSE result.onlyInFile2
    IN  [e \in 1..Len(bucket) |-> SingleEntry(bucket[e])]
Paired == Matched \o Mismatched

Summary ==
    IF IsKmsDml
    THEN [totalA |-> result.summary.totalKmsDml,
          totalB |-> result.summary.totalDocumentation,
          matched |-> result.summary.matches,
          mismatched |-> result.summary.mismatches,
          unmatchedA |-> result.summary.onlyInKmsDml,
          unmatchedB |-> result.summary.onlyInDocumentation]
    ELSE [totalA |-> result.summary.totalFile1,
          totalB |-> result.summary.totalFile2,
          matched |-> result.summary.matches,
          mismatched |-> result.summary.mismatches,
          unmatchedA |-> result.summary.onlyInFile1,
          unmatchedB |-> result.summary.onlyInFile2]

\* positions of the entries of a bucket that come from the A row / B row
\* at the given row position, or that have the given key
FromRowA(bucket, rowNumber) == {e \in 1..Len(bucket) : bucket[e].rowA = rowNumber}
FromRowB(bucket, rowNumber) == {e \in 1..Len(bucket) : bucket[e].rowB = rowNumber}
FromRow(bucket, rowNumber) == {e \in 1..Len(bucket) : bucket[e].row = rowNumber}
WithKey(bucket, key) == {e \in 1..Len(bucket) : bucket[e].key = key}

\* the last row of rowsB whose key is the one of row j
IsLastWithKey(j) ==
    /\ j \in KeyedRowsB
    /\ \A j2 \in KeyedRowsB : KeyB(j2) = KeyB(j) => j2 <= j

\* C1: every A row with a key produces exactly one entry, in exactly one of
\* Matched, Mismatched, UnmatchedA; an A row without a key produces none; so
\* the three lengths add up to the number of A rows with a key.
C1_PartitionA ==
    Returned =>
        /\ \A i \in RowsA :
              LET rn == RowNumber(RowsOfA[i])
                  entries == Cardinality(FromRowA(Matched, rn))
                             + Cardinality(FromRowA(Mismatched, rn))
                             + Cardinality(FromRow(UnmatchedA, rn))
              IN  entries = (IF i \in KeyedRowsA THEN 1 ELSE 0)
        /\ Len(Matched) + Len(Mismatched) + Len(UnmatchedA) = Cardinality(KeyedRowsA)

\* C1 witness: a call whose A rows hold a row without a key, and a row with
\* a key that was paired.
C1_Witness ==
    /\ Returned
    /\ RowsA \ KeyedRowsA # {}
    /\ KeyedRowsA # {}
    /\ Len(Paired) > 0

\* C2 as stated: every B row with a key is either the row a Matched or
\* Mismatched entry refers to (rowB) or has an UnmatchedB entry, never
\* neither and never both, duplicates of a key in rowsB included.
C2_Original ==
    Returned =>
        \A j \in KeyedRowsB :
            LET rn == RowNumber(RowsOfB[j])
            IN  (FromRowB(Paired, rn) # {}) # (FromRow(UnmatchedB, rn) # {})

\* C2 amended: the last B row of each key is either referred to by the
\* Matched/Mismatched entries or has exactly one UnmatchedB entry, never
\* neither and never both; an earlier B row of the same key is never
\* referred to, and has its UnmatchedB entry exactly when no A row has its key.
C2_PartitionLastB ==
    Returned =>
        \A j \in KeyedRowsB :
            LET rn == RowNumber(RowsOfB[j])
                referred == FromRowB(Paired, rn) # {}
                unmatched == FromRow(UnmatchedB, rn) # {}
            IN  /\ Cardinality(FromRow(UnmatchedB, rn)) <= 1
                /\ IF IsLastWithKey(j)
                   THEN referred # unmatched
                   ELSE /\ ~referred
                        /\ unmatched <=> KeyB(j) \notin KeysA

\* C2 witness: two B rows share a key that an A row has.
C2_Witness ==
    /\ Returned
    /\ \E j1, j2 \in KeyedRowsB :
          /\ j1 < j2
          /\ KeyB(j1) = KeyB(j2)
          /\ KeyB(j1) \in KeysA

\* C3 as stated: every key of rowsA has entries in exactly one bucket kind
\* among Matched, Mismatched and UnmatchedA.
C3_Original ==
    (Returned /\ IsKmsDml) =>
        \A k \in KeysA :
            Cardinality({b \in {"matched", "mismatched", "unmatchedA"} :
                CASE b = "matched" -> WithKey(Matched, k) # {}
                  [] b = "mismatched" -> WithKey(Mismatched, k) # {}
                  [] OTHER -> WithKey(UnmatchedA, k) # {}}) = 1

\* C3 amended: every key of rowsA has entries either in UnmatchedA or in
\* Matched/Mismatched, never in both groups; it has entries in both Matched
\* and Mismatched only if several A rows have that key.
C3_KeyBuckets ==
    (Returned /\ IsKmsDml) =>
        \A k \in KeysA :
            /\ (WithKey(Paired, k) # {}) # (WithKey(UnmatchedA, k) # {})
            /\ (WithKey(Matched, k) # {} /\ WithKey(Mismatched, k) # {})
                  => Cardinality({i \in KeyedRowsA : KeyA(i) = k}) > 1

\* C3 witness: one key of rowsA has a Matched and a Mismatched entry.
C3_Witness ==
    /\ Returned
    /\ IsKmsDml
    /\ \E k \in KeysA : WithKey(Matched, k) # {} /\ WithKey(Mismatched, k) # {}

\* C4: every Matched or Mismatched entry carries the value and the row
\* position of the last B row with its key, and is in Matched exactly when
\* the A value matches that last row's value.
C4_LastWriteWins ==
    Returned =>
        /\ \A i \in KeyedRowsA :
              KeyA(i) \in KeysB
                  => FromRowA(Paired, RowNumber(RowsOfA[i])) # {}
        /\ \A e \in 1..Len(Paired) :
              \E j \in KeyedRowsB :
                  /\ IsLastWithKey(j)
                  /\ KeyB(j) = Paired[e].key
                  /\ Paired[e].valueB = ValueCellB(RowsOfB[j])
                  /\ Paired[e].rowB = RowNumber(RowsOfB[j])
                  /\ (e <= Len(Matched))
                        <=> versionsMatch(Paired[e].valueA, ValueCellB(RowsOfB[j]))

\* C4 witness: two B rows share a key with different values, and an A row
\* with that key was paired.
C4_Witness ==
    /\ Returned
    /\ \E j1, j2 \in KeyedRowsB :
          /\ j1 < j2
          /\ KeyB(j1) = KeyB(j2)
          /\ ~versionsMatch(ValueCellB(RowsOfB[j1]), ValueCellB(RowsOfB[j2]))
          /\ WithKey(Paired, KeyB(j1)) # {}

\* the UnmatchedB entry a B row yields
UnmatchedEntryOf(rowB) ==
    [key |-> KeyOf(KeyCellB(rowB)), value |-> ValueCellB(rowB), row |-> RowNumber(rowB)]

NeverMatchedRowsB ==
    SelectSeq(RowsOfB, LAMBDA r : HasKey(KeyCellB(r)) /\ KeyOf(KeyCellB(r)) \notin KeysA)

\* C5: UnmatchedB is the subsequence of rowsB, in order, of the rows with a
\* key that no A row has, each with its own value and row position.
C5_UnmatchedBExact ==
    Returned =>
        UnmatchedB = [e \in 1..Len(NeverMatchedRowsB) |->
                         UnmatchedEntryOf(NeverMatchedRowsB[e])]

\* C5 witness: two B rows share a key no A row has, with different values,
\* while another A row exists.
C5_Witness ==
    /\ Returned
    /\ KeyedRowsA # {}
    /\ \E j1, j2 \in KeyedRowsB :
          /\ j1 < j2
          /\ KeyB(j1) = KeyB(j2)
          /\ KeyB(j1) \notin KeysA
          /\ ValueCellB(RowsOfB[j1]) # ValueCellB(RowsOfB[j2])
    /\ Len(UnmatchedB) > 1

\* two keys that differ, but only in letter case
DifferInCaseOnly(k1, k2) == k1 # k2 /\ toLowerCase(k1) = toLowerCase(k2)

\* two text values equal up to letter case and surrounding whitespace
SameTextLoosely(v1, v2) ==
    /\ v1.t = "string"
    /\ v2.t = "string"
    /\ toLowerCase(trim(v1.s)) = toLowerCase(trim(v2.s))

\* the trimmed key of a text cell, case preserved; <<>> for any other cell
TrimmedKey(cell) == IF cell.t = "string" THEN trim(cell.s) ELSE <<>>
TrimmedKeysA == {TrimmedKey(KeyCellA(RowsOfA[i])) : i \in RowsA}
TrimmedKeysB == {TrimmedKey(KeyCellB(RowsOfB[j])) : j \in RowsB}

SpecNormalize(rawValue) ==
    IF rawValue.t \in {"null", "undefined"} \/ Len(trim(String(rawValue))) = 0
    THEN Null
    ELSE Text(trim(String(rawValue)))

\* C7: normalizeReference returns absent exactly for empty/null/undefined
\* values and text that trims to nothing, and the trimmed textual form of
\* every other value, the number 0 and the boolean false included.
C7_NormalizerAsSpecified ==
    fnOp = "normalizeReference" => fnOut = SpecNormalize(fnA)

\* value equality as specified: null/undefined become "", both sides are
\* converted to text, trimmed and lower-cased, and compared
SpecValuesMatch(a, b) ==
    LET text(v) == IF v.t \in {"null", "undefined"} THEN <<>> ELSE String(v)
    IN  toLowerCase(trim(text(a))) = toLowerCase(trim(text(b)))

\* C8: versionsMatch agrees with the specified value equality on every pair
\* of cell values.
C8_ValueEqualityAsSpecified ==
    fnOp = "versionsMatch" => fnOut = SpecValuesMatch(fnA, fnB)

\* C9: the summary counts are the bucket lengths, the totals are the
\* lengths of the two arguments, rows without a key included, so that
\* totalA >= matched + mismatched + unmatchedA.
C9_SummaryCounts ==
    Returned =>
        /\ Summary.matched = Len(Matched)
        /\ Summary.mismatched = Len(Mismatched)
        /\ Summary.unmatchedA = Len(UnmatchedA)
        /\ Summary.unmatchedB = Len(UnmatchedB)
        /\ Summary.totalA = Len(RowsOfA)
        /\ Summary.totalB = Len(RowsOfB)
        /\ Summary.totalA >= Summary.matched + Summary.mismatched + Summary.unmatchedA

\* C9 witness: rows without a key on both sides, counted in the totals and
\* in no bucket.
C9_Witness ==
    /\ Returned
    /\ RowsA \ KeyedRowsA # {}
    /\ RowsB \ KeyedRowsB # {}
    /\ Summary.totalA > Len(Matched) + Len(Mismatched) + Len(UnmatchedA)
    /\ Summary.totalB > Len(UnmatchedB)
    /\ Len(UnmatchedB) > 0

\* the entries of the result all come from rows of the arguments
FromOwnArguments ==
    /\ \A e \in 1..Len(Paired) :
          /\ \E i \in RowsA :
                /\ RowNumber(RowsOfA[i]) = Paired[e].rowA
                /\ ValueCellA(RowsOfA[i]) = Paired[e].valueA
          /\ \E j \in RowsB :
                /\ RowNumber(RowsOfB[j]) = Paired[e].rowB
                /\ ValueCellB(RowsOfB[j]) = Paired[e].valueB
    /\ \A e \in 1..Len(UnmatchedA) :
          \E i \in RowsA :
              /\ RowNumber(RowsOfA[i]) = UnmatchedA[e].row
              /\ ValueCellA(RowsOfA[i]) = UnmatchedA[e].value
    /\ \A e \in 1..Len(UnmatchedB) :
          \E j \in RowsB :
              /\ RowNumber(RowsOfB[j]) = UnmatchedB[e].row
              /\ ValueCellB(RowsOfB[j]) = UnmatchedB[e].value

-----------------------------------------------------------------------------
(* Vocabulary of the properties of the command line *)

ParseReturned == cliPc # "parse"
Exited == cliPc = "exited"
Printed(line) == \E k \in 1..Len(console) : console[k] = line

\* the messages of the errors ArgumentParser raises
ArgumentErrors ==
    {"Invalid -f argument", "Missing arguments for -f flag", "Invalid column letter",
     "Unknown argument", "Exactly 2 files must be specified with -f flag"}

\* exactly two tokens, neither of them a flag
IsLegacyForm ==
    /\ Len(argv) = 2
    /\ \A k \in 1..2 : argv[k] # <<>> /\ argv[k][1] # "-"

\* compare ran on the key column A / value column Q of the first file and
\* the key column C / value column H of the second
ComparedAQWithCH ==
    /\ pc = "done"
    /\ \/ variant = "kmsDml"
       \/ args.file1Column = "A" /\ args.file2Column = "C"

\* C11 as stated: with exactly two positional arguments parse raises no
\* argument error and the run goes on to compare A/Q with C/H.
C11_Original ==
    IsLegacyForm =>
        /\ ParseReturned => thrown \notin ArgumentErrors
        /\ Exited => ComparedAQWithCH

\* C11: with exactly two positional arguments and no flag, parse raises the
\* argument error "Unknown argument" on the first token; the run validates
\* and loads no file, never calls compare, prints no result and ends with
\* exit code 1.
C11_LegacyRejected ==
    (IsLegacyForm /\ ParseReturned) =>
        /\ thrown = "Unknown argument"
        /\ cliPc \in {"catch", "exited"}
        /\ parsed = NoParsedArgs
        /\ validated = {} /\ loaded = {}
        /\ pc = "ready" /\ result = NoResult
        /\ ~Printed("COMPARISON RESULTS")
        /\ Exited => exitCode = 1 /\ Printed("Error")

\* C11 witness: a run started with two file paths and no flag has ended.
C11_Witness ==
    /\ IsLegacyForm
    /\ Exited
    /\ \A k \in 1..2 : existsSync(disk, argv[k]) /\ disk[argv[k]].workbook

\* the extension of a path is .xlsx, .xlsm or .xls in any letter case
EndsWithIgnoreCase(str, suffix) ==
    /\ Len(str) >= Len(suffix)
    /\ toLowerCase(SubSeq(str, Len(str) - Len(suffix) + 1, Len(str))) = suffix

PathIsValid(filePath) ==
    /\ filePath \in DOMAIN disk
    /\ disk[filePath].exists
    /\ \E suffix \in SupportedExtensions : EndsWithIgnoreCase(filePath, suffix)

FileOf(n) == parsed.files[n]

\* every step of the pipeline completed
AllStepsCompleted ==
    /\ validated = {1, 2}
    /\ loaded = {1, 2}
    /\ pc = "done"
    /\ Printed("COMPARISON RESULTS")

\* what holds in every state of a run
C12_StateFailClosed ==
    \* a step that completed had no reason to fail
    /\ \A n \in validated : PathIsValid(FileOf(n).filePath)
    /\ \A n \in loaded : disk[FileOf(n).filePath].workbook
    /\ pc = "done" =>
          \A n \in {1, 2} : FileOf(n).sheetName \in disk[FileOf(n).filePath].sheets
    \* no workbook is loaded before both paths are validated
    /\ loaded # {} => validated = {1, 2}
    \* after an error only the handler runs, and no result is printed
    /\ thrown # NoError =>
          /\ cliPc \in {"catch", "exited"}
          /\ pc = "ready" /\ result = NoResult
          /\ ~Printed("COMPARISON RESULTS")
    /\ (Exited /\ thrown # NoError) => exitCode = 1 /\ Printed("Error")
    /\ ~Exited => exitCode = 0
    \* code 0 only after help or after every step
    /\ (Exited /\ exitCode = 0) =>
          /\ thrown = NoError
          /\ \/ parsed.showHelp /\ Printed("USAGE") /\ validated = {} /\ loaded = {}
             \/ AllStepsCompleted
    /\ (Exited /\ exitCode # 0) => exitCode = 1 /\ thrown # NoError

\* what holds of every step of a run once an error was raised: no step of
\* the pipeline runs, the handler prints and ends the process
C12_StepFailClosed ==
    thrown # NoError =>
        /\ UNCHANGED <<compareVars, parsed, validated, loaded, data1, data2, thrown>>
        /\ cliPc = "catch" /\ cliPc' = "exited" /\ exitCode' = 1

\* C12: a run that raises an error at any step runs no later step, prints
\* the error and no result and ends with exit code 1; no workbook is loaded
\* before both paths are validated; a run ends with exit code 0 only after
\* help or after every step completed.
C12_FailClosed ==
    /\ []C12_StateFailClosed
    /\ [][C12_StepFailClosed]_vars
    /\ (thrown # NoError) ~> (Exited /\ exitCode = 1 /\ Printed("Error"))

\* C12 witness: a run whose two files passed validation and were loaded
\* ended on a worksheet that is not in the second workbook.
C12_Witness ==
    /\ Exited
    /\ thrown = "Worksheet not found"
    /\ loaded = {1, 2}
    /\ data1 # <<>>
    /\ exitCode = 1

\* the token is made of one or two letters
OneOrTwoLetters(token) ==
    /\ Len(token) \in {1, 2}
    /\ \A k \in 1..Len(token) :
          \E m \in 1..26 : token[k] = UpperLetters[m] \/ token[k] = LowerLetters[m]

HelpRequested == argv = <<>> \/ includes(argv, FlagH) \/ includes(argv, FlagHelp)

\* the list is "-f <file> <sheet> <column>" twice, each column of one or two
\* letters
TwoFileGroups ==
    /\ Len(argv) = 8
    /\ argv[1] = FlagFile /\ argv[5] = FlagFile
    /\ OneOrTwoLetters(argv[4]) /\ OneOrTwoLetters(argv[8])

\* no file path, sheet name or column of the two groups is the empty string
NoEmptyToken == \A k \in {2, 3, 4, 6, 7, 8} : argv[k] # <<>>

GroupAt(k) ==
    [filePath |-> argv[k + 1], sheetName |-> argv[k + 2],
     columnLetter |-> toUpperCase(argv[k + 3])]

ParsedTwoGroups ==
    /\ thrown = NoError
    /\ cliPc = "validate1"
    /\ parsed = [files |-> <<GroupAt(1), GroupAt(5)>>, showHelp |-> FALSE]

ParsedHelp ==
    /\ thrown = NoError
    /\ cliPc = "help"
    /\ parsed = [files |-> <<>>, showHelp |-> TRUE]

ParseRaised ==
    /\ thrown \in ArgumentErrors
    /\ cliPc = "catch"
    /\ parsed = NoParsedArgs

\* C13 as stated: any two groups with columns of one or two letters parse.
C13_Original ==
    ParseReturned =>
        IF HelpRequested THEN ParsedHelp
        ELSE IF TwoFileGroups THEN ParsedTwoGroups
        ELSE ParseRaised

\* C13: without a help flag, parse succeeds exactly when the list is two
\* groups "-f <file> <sheet> <column>" whose file paths and sheet names are
\* not empty and whose columns are one or two letters; it returns the two
\* groups in order, columns upper-cased, paths and sheets unchanged. Every
\* other list raises an argument error. An empty list or a list with -h or
\* --help yields showHelp.
C13_ParseExactlyTwoGroups ==
    ParseReturned =>
        IF HelpRequested THEN ParsedHelp
        ELSE IF TwoFileGroups /\ NoEmptyToken THEN ParsedTwoGroups
        ELSE ParseRaised

\* C13 witness: parse returned two groups, the column of the first changed
\* by the upper-casing and the second a column of two letters.
C13_Witness ==
    /\ ParseReturned
    /\ ~HelpRequested
    /\ TwoFileGroups
    /\ parsed.showHelp = FALSE
    /\ Len(parsed.files) = 2
    /\ parsed.files[2].columnLetter = <<"Q", "Z">>
    /\ argv[4] # parsed.files[1].columnLetter

\* the index in rowsA of the row at a row position
IndexOfRowA(rowNumber) == CHOOSE i \in RowsA : RowNumber(RowsOfA[i]) = rowNumber

\* the row positions are those of rows of rowsA, met in the order of rowsA
InRowsAOrder(rowNumbers) ==
    /\ \A p \in 1..Len(rowNumbers) :
          \E i \in RowsA : RowNumber(RowsOfA[i]) = rowNumbers[p]
    /\ \A p, q \in 1..Len(rowNumbers) :
          p < q => IndexOfRowA(rowNumbers[p]) < IndexOfRowA(rowNumbers[q])

\* C14: the entries of Matched, of Mismatched and of UnmatchedA come from
\* rows of rowsA whose indexes grow along the bucket, whatever the order of
\* rowsB.
C14_OrderPreserved ==
    Returned =>
        /\ InRowsAOrder([e \in 1..Len(Matched) |-> Matched[e].rowA])
        /\ InRowsAOrder([e \in 1..Len(Mismatched) |-> Mismatched[e].rowA])
        /\ InRowsAOrder([e \in 1..Len(UnmatchedA) |-> UnmatchedA[e].row])

\* C14 witness: two rows of rowsA are in Matched, paired with B rows that
\* come in the opposite order in rowsB.
C14_Witness ==
    /\ Returned
    /\ IsKmsDml
    /\ Len(Matched) = 2
    /\ Matched[1].rowB > Matched[2].rowB

\* C15: the comparator of one column per file, the one the command line
\* calls, leaves Mismatched empty and summary.mismatches at 0: every A row
\* whose key is a key of rowsB is in Matched, with the cells that gave the
\* two keys as its values.
C15_SingleColumnNoMismatch ==
    (Returned /\ ~IsKmsDml) =>
        /\ Mismatched = <<>>
        /\ Summary.mismatched = 0
        /\ \A i \in KeyedRowsA :
              KeyA(i) \in KeysB =>
                  \E e \in 1..Len(Matched) :
                      /\ Matched[e].rowA = RowNumber(RowsOfA[i])
                      /\ Matched[e].valueA = KeyCellA(RowsOfA[i])
                      /\ \E j \in KeyedRowsB :
                            /\ Matched[e].rowB = RowNumber(RowsOfB[j])
                            /\ Matched[e].valueB = KeyCellB(RowsOfB[j])
                            /\ KeyB(j) = KeyA(i)

\* C15 witness: the one-column comparator paired a number cell with a text
\* cell of the same key, and a text cell with a text cell that has other
\* surrounding whitespace.
C15_Witness ==
    /\ Returned
    /\ ~IsKmsDml
    /\ Len(Matched) = 2
    /\ \E e \in 1..2 : Matched[e].valueA.t = "number" /\ Matched[e].valueB.t = "string"
    /\ \E e \in 1..2 : Matched[e].valueA.t = "string" /\ Matched[e].valueA # Matched[e].valueB

=============================================================================
